---- MODULE Spec2Model ----
(***************************************************************************)
(* CSS selector builder of src/src/05-objects-tasks.js: the class          *)
(* CssSelectorBase (lines 117-216) and the facade cssSelectorBuilder       *)
(* (lines 218-250); and the constructor Rectangle (lines 23-27).           *)
(*                                                                         *)
(* The heap of CssSelectorBase objects is the sequence `selectors`; an     *)
(* object is named by its index, so that two arguments of one call can be  *)
(* the same object.  A method of the class is an operator from the object  *)
(* (or the heap) to the object after the call together with the error it   *)
(* threw, and an action applies it to the heap.  `last` records the last   *)
(* call made and what its caller saw (error thrown, string returned);      *)
(* `calls` counts the calls where the specification bounds their number.   *)
(* `rectangle` holds the Rectangle object, when one has been constructed.  *)
(***************************************************************************)
EXTENDS Integers, Sequences, FiniteSets, TLC

VARIABLES selectors, last, calls, rectangle

vars == <<selectors, last, calls, rectangle>>

----------------------------------------------------------------------------
(* Bounds of the model *)

\* class, attr and pseudoClass are offered while the object holds fewer than
\* this many fragments of these three categories together
MaxFragments == 3
\* stringify is offered while the stored string is no longer than this
MaxStringLen == 1
\* number of calls made on the facade and on the objects it created
MaxCalls == 3
\* widths and heights are 0..MaxSide
MaxSide == 5

----------------------------------------------------------------------------
(* Data *)

\* keys of this.correctOrder, in the order Object.keys walks them
Order == <<"element", "id", "class", "attr", "pseudoClass", "pseudoElement">>

OrderKeys == {Order[i] : i \in 1..Len(Order)}

\* keys of this.params
ParamKeys == {"element", "id", "className", "attr", "pseudoClass", "pseudoElement"}

\* the key of this.params that the method named by an order key pushes to
ParamOf(key) == IF key = "class" THEN "className" ELSE key

Combinators == {" ", "+", "~", ">"}

\* values handed to the add methods
Values(key) ==
    CASE key = "element"       -> {"e"}
      [] key = "id"            -> {"i"}
      [] key = "class"         -> {"x", "y"}
      [] key = "attr"          -> {"p", "q"}
      [] key = "pseudoClass"   -> {"h", "k"}
      [] key = "pseudoElement" -> {"a"}

\* one value for each add method
Value1(key) ==
    CASE key = "element"       -> {"e"}
      [] key = "id"            -> {"i"}
      [] key = "class"         -> {"x"}
      [] key = "attr"          -> {"p"}
      [] key = "pseudoClass"   -> {"h"}
      [] key = "pseudoElement" -> {"a"}

\* the object `new CssSelectorBase()` constructs
NewSelector ==
    [params         |-> [k \in ParamKeys |-> <<>>],
     selectorString |-> "",
     correctOrder   |-> [k \in OrderKeys |-> FALSE]]

----------------------------------------------------------------------------
(* Methods of CssSelectorBase *)

\* Array.prototype.join on an array of strings
RECURSIVE join(_, _)
join(param, separator) ==
    IF Len(param) = 0 THEN ""
    ELSE IF Len(param) = 1 THEN param[1]
    ELSE param[1] \o separator \o join(Tail(param), separator)

\* addElementToSelectorString without its test of param.length
addElementToSelectorString_always(s, param, pre, separator, post) ==
    [s EXCEPT !.selectorString = @ \o pre \o join(param, separator) \o post]

\* pre, separator, post: "" stands for an argument left out (pre || '')
addElementToSelectorString(s, param, pre, separator, post) ==
    IF Len(param) # 0
    THEN [s EXCEPT !.selectorString = @ \o pre \o join(param, separator) \o post]
    ELSE s

\* stringify handing out the string and leaving an object with no fragments
stringify_consume(s) ==
    LET s1 == addElementToSelectorString(s,  s.params.element, "", "", "")
        s2 == addElementToSelectorString(s1, s1.params.id, "#", "#", "")
        s3 == addElementToSelectorString(s2, s2.params.className, ".", ".", "")
        s4 == addElementToSelectorString(s3, s3.params.attr, "[", "][", "]")
        s5 == addElementToSelectorString(s4, s4.params.pseudoClass, ":", ":", "")
        s6 == addElementToSelectorString(s5, s5.params.pseudoElement, "::", "::", "")
    IN  [self |-> [NewSelector EXCEPT !.selectorString = s6.selectorString],
         ret |-> s6.selectorString]

\* the object after the call, and the string returned
stringify(s) ==
    LET s1 == addElementToSelectorString(s,  s.params.element, "", "", "")
        s2 == addElementToSelectorString(s1, s1.params.id, "#", "#", "")
        s3 == addElementToSelectorString(s2, s2.params.className, ".", ".", "")
        s4 == addElementToSelectorString(s3, s3.params.attr, "[", "][", "]")
        s5 == addElementToSelectorString(s4, s4.params.pseudoClass, ":", ":", "")
        s6 == addElementToSelectorString(s5, s5.params.pseudoElement, "::", "::", "")
    IN  [self |-> s6, ret |-> s6.selectorString]

\* checkForOccurance with a test of length > 1
checkForOccurance_moreThanOne(s, paramName) == Len(s.params[paramName]) > 1

\* TRUE when checkForOccurance throws
checkForOccurance(s, paramName) == Len(s.params[paramName]) # 0

\* the forEach stopping one key early: pseudoElement is never looked at
RECURSIVE orderWalk_skipLast(_, _, _, _)
orderWalk_skipLast(correctOrder, paramName, i, paramIsActive) ==
    IF i >= Len(Order) THEN [correctOrder |-> correctOrder, thrown |-> FALSE]
    ELSE IF Order[i] = paramName
         THEN orderWalk_skipLast([correctOrder EXCEPT ![paramName] = TRUE], paramName, i + 1, TRUE)
    ELSE IF paramIsActive /\ correctOrder[Order[i]]
         THEN [correctOrder |-> correctOrder, thrown |-> TRUE]
    ELSE orderWalk_skipLast(correctOrder, paramName, i + 1, paramIsActive)

\* the forEach with a test that forgets paramIsActive: any other key that is
\* set throws
RECURSIVE orderWalk_anyKey(_, _, _, _)
orderWalk_anyKey(correctOrder, paramName, i, paramIsActive) ==
    IF i > Len(Order) THEN [correctOrder |-> correctOrder, thrown |-> FALSE]
    ELSE IF Order[i] = paramName
         THEN orderWalk_anyKey([correctOrder EXCEPT ![paramName] = TRUE], paramName, i + 1, TRUE)
    ELSE IF correctOrder[Order[i]]
         THEN [correctOrder |-> correctOrder, thrown |-> TRUE]
    ELSE orderWalk_anyKey(correctOrder, paramName, i + 1, paramIsActive)

\* the forEach without the assignment correctOrder[paramName] = true
RECURSIVE orderWalk_noMark(_, _, _, _)
orderWalk_noMark(correctOrder, paramName, i, paramIsActive) ==
    IF i > Len(Order) THEN [correctOrder |-> correctOrder, thrown |-> FALSE]
    ELSE IF Order[i] = paramName
         THEN orderWalk_noMark(correctOrder, paramName, i + 1, TRUE)
    ELSE IF paramIsActive /\ correctOrder[Order[i]]
         THEN [correctOrder |-> correctOrder, thrown |-> TRUE]
    ELSE orderWalk_noMark(correctOrder, paramName, i + 1, paramIsActive)

\* the forEach of checkForOrder from key number i on: the correctOrder record
\* it leaves and whether it threw
RECURSIVE orderWalk(_, _, _, _)
orderWalk(correctOrder, paramName, i, paramIsActive) ==
    IF i > Len(Order) THEN [correctOrder |-> correctOrder, thrown |-> FALSE]
    ELSE IF Order[i] = paramName
         THEN orderWalk([correctOrder EXCEPT ![paramName] = TRUE], paramName, i + 1, TRUE)
    ELSE IF paramIsActive /\ correctOrder[Order[i]]
         THEN [correctOrder |-> correctOrder, thrown |-> TRUE]
    ELSE orderWalk(correctOrder, paramName, i + 1, paramIsActive)

\* the object after checkForOrder, and whether it threw
checkForOrder(s, paramName) ==
    LET w == orderWalk(s.correctOrder, paramName, 1, FALSE)
    IN  [self |-> [s EXCEPT !.correctOrder = w.correctOrder], thrown |-> w.thrown]

Thrown(s, error) == [self |-> s, error |-> error]

\* unshift in place of push
Pushed_front(s, paramName, value) ==
    [self |-> [s EXCEPT !.params[paramName] = <<value>> \o @], error |-> "none"]

Pushed(s, paramName, value) ==
    [self |-> [s EXCEPT !.params[paramName] = Append(@, value)], error |-> "none"]

\* element with the two checks in the order pseudoElement makes them
element_orderFirst(s, value) ==
    LET o == checkForOrder(s, "element")
    IN  IF o.thrown THEN Thrown(o.self, "order")
        ELSE IF checkForOccurance(o.self, "element") THEN Thrown(o.self, "duplicate")
        ELSE Pushed(o.self, "element", value)

element(s, value) ==
    IF checkForOccurance(s, "element") THEN Thrown(s, "duplicate")
    ELSE LET o == checkForOrder(s, "element")
         IN  IF o.thrown THEN Thrown(o.self, "order")
             ELSE Pushed(o.self, "element", value)

id(s, value) ==
    IF checkForOccurance(s, "id") THEN Thrown(s, "duplicate")
    ELSE LET o == checkForOrder(s, "id")
         IN  IF o.thrown THEN Thrown(o.self, "order")
             ELSE Pushed(o.self, "id", value)

\* class pushing the value before it checks the order
class_pushFirst(s, value) ==
    LET o == checkForOrder(Pushed(s, "className", value).self, "class")
    IN  IF o.thrown THEN Thrown(o.self, "order")
        ELSE [self |-> o.self, error |-> "none"]

class(s, value) ==
    LET o == checkForOrder(s, "class")
    IN  IF o.thrown THEN Thrown(o.self, "order")
        ELSE Pushed(o.self, "className", value)

attr(s, value) ==
    LET o == checkForOrder(s, "attr")
    IN  IF o.thrown THEN Thrown(o.self, "order")
        ELSE Pushed(o.self, "attr", value)

pseudoClass(s, value) ==
    LET o == checkForOrder(s, "pseudoClass")
    IN  IF o.thrown THEN Thrown(o.self, "order")
        ELSE Pushed(o.self, "pseudoClass", value)

pseudoElement(s, value) ==
    LET o == checkForOrder(s, "pseudoElement")
    IN  IF o.thrown THEN Thrown(o.self, "order")
        ELSE IF checkForOccurance(o.self, "pseudoElement") THEN Thrown(o.self, "duplicate")
        ELSE Pushed(o.self, "pseudoElement", value)

\* the add method an order key names
Add(s, key, value) ==
    CASE key = "element"       -> element(s, value)
      [] key = "id"            -> id(s, value)
      [] key = "class"         -> class(s, value)
      [] key = "attr"          -> attr(s, value)
      [] key = "pseudoClass"   -> pseudoClass(s, value)
      [] key = "pseudoElement" -> pseudoElement(s, value)

\* combine making the receiver a new object that holds the combined string
\* only: its fragments and its correctOrder are dropped
combine_discard(heap, this, selector1, combinator, selector2) ==
    LET r1 == stringify(heap[selector1])
        h1 == [heap EXCEPT ![selector1] = r1.self]
        r2 == stringify(h1[selector2])
        h2 == [h1 EXCEPT ![selector2] = r2.self]
    IN  [h2 EXCEPT ![this] =
            [NewSelector EXCEPT !.selectorString =
                r1.ret \o " " \o combinator \o " " \o r2.ret]]

\* this.combine(selector1, combinator, selector2) on the heap: the template
\* literal calls selector1.stringify(), then selector2.stringify(), and the
\* result is assigned to this.selectorString.  this, selector1 and selector2
\* are indices of heap and may coincide.
combine(heap, this, selector1, combinator, selector2) ==
    LET r1 == stringify(heap[selector1])
        h1 == [heap EXCEPT ![selector1] = r1.self]
        r2 == stringify(h1[selector2])
        h2 == [h1 EXCEPT ![selector2] = r2.self]
    IN  [h2 EXCEPT ![this].selectorString =
                       r1.ret \o " " \o combinator \o " " \o r2.ret]

----------------------------------------------------------------------------
(* Calls *)

NoCall == [op |-> "none", self |-> 0, key |-> "", value |-> "",
           selector1 |-> 0, selector2 |-> 0, error |-> "none", ret |-> "",
           width |-> 0, height |-> 0, area |-> 0]

\* a call of the add method `key` on object b
AddCall(b, key, value) ==
    LET r == Add(selectors[b], key, value)
    IN  /\ selectors' = [selectors EXCEPT ![b] = r.self]
        /\ last' = [NoCall EXCEPT !.op = "add", !.self = b, !.key = key,
                                  !.value = value, !.error = r.error]

Element(b, value)       == AddCall(b, "element", value)
Id(b, value)            == AddCall(b, "id", value)
Class(b, value)         == AddCall(b, "class", value)
Attr(b, value)          == AddCall(b, "attr", value)
PseudoClass(b, value)   == AddCall(b, "pseudoClass", value)
PseudoElement(b, value) == AddCall(b, "pseudoElement", value)

Stringify(b) ==
    LET r == stringify(selectors[b])
    IN  /\ selectors' = [selectors EXCEPT ![b] = r.self]
        /\ last' = [NoCall EXCEPT !.op = "stringify", !.self = b, !.ret = r.ret]

Combine(b, selector1, combinator, selector2) ==
    /\ selectors' = combine(selectors, b, selector1, combinator, selector2)
    /\ last' = [NoCall EXCEPT !.op = "combine", !.self = b, !.key = combinator,
                              !.selector1 = selector1, !.selector2 = selector2]

\* the facade keeping one object for all its calls in place of a new one each
BuilderAdd_shared(key, value) ==
    IF selectors = <<>>
    THEN /\ selectors' = <<Add(NewSelector, key, value).self>>
         /\ last' = [NoCall EXCEPT !.op = "builder.add", !.self = 1, !.key = key,
                                   !.value = value]
    ELSE LET r == Add(selectors[1], key, value)
         IN  /\ selectors' = [selectors EXCEPT ![1] = r.self]
             /\ last' = [NoCall EXCEPT !.op = "builder.add", !.self = 1, !.key = key,
                                       !.value = value, !.error = r.error]

\* cssSelectorBuilder.<key>(value): new CssSelectorBase().<key>(value)
BuilderAdd(key, value) ==
    LET b == Len(selectors) + 1
        r == Add(NewSelector, key, value)
    IN  /\ selectors' = Append(selectors, r.self)
        /\ last' = [NoCall EXCEPT !.op = "builder.add", !.self = b, !.key = key,
                                  !.value = value, !.error = r.error]

BuilderElement(value)       == BuilderAdd("element", value)
BuilderId(value)            == BuilderAdd("id", value)
BuilderClass(value)         == BuilderAdd("class", value)
BuilderAttr(value)          == BuilderAdd("attr", value)
BuilderPseudoClass(value)   == BuilderAdd("pseudoClass", value)
BuilderPseudoElement(value) == BuilderAdd("pseudoElement", value)

\* cssSelectorBuilder.combine: new CssSelectorBase().combine(...)
BuilderCombine(selector1, combinator, selector2) ==
    LET b == Len(selectors) + 1
    IN  /\ selectors' = combine(Append(selectors, NewSelector), b,
                                selector1, combinator, selector2)
        /\ last' = [NoCall EXCEPT !.op = "builder.combine", !.self = b,
                                  !.key = combinator, !.selector1 = selector1,
                                  !.selector2 = selector2]

----------------------------------------------------------------------------
(* One CssSelectorBase object, from its construction on *)

Init ==
    /\ selectors = <<NewSelector>>
    /\ last = NoCall
    /\ calls = 0
    /\ rectangle = <<>>

Multiple(s) == Len(s.params.className) + Len(s.params.attr) + Len(s.params.pseudoClass)

Room(b) == Multiple(selectors[b]) < MaxFragments

Short(b) == Len(selectors[b].selectorString) <= MaxStringLen

\* the calls on the one object are not counted
Free == UNCHANGED <<calls, rectangle>>

Next ==
    \/ \E b \in DOMAIN selectors, v \in Values("element") : Element(b, v) /\ Free
    \/ \E b \in DOMAIN selectors, v \in Values("id") : Id(b, v) /\ Free
    \/ \E b \in DOMAIN selectors, v \in Values("class") :
          Room(b) /\ Class(b, v) /\ Free
    \/ \E b \in DOMAIN selectors, v \in Values("attr") :
          Room(b) /\ Attr(b, v) /\ Free
    \/ \E b \in DOMAIN selectors, v \in Values("pseudoClass") :
          Room(b) /\ PseudoClass(b, v) /\ Free
    \/ \E b \in DOMAIN selectors, v \in Values("pseudoElement") :
          PseudoElement(b, v) /\ Free
    \/ \E b \in DOMAIN selectors : Short(b) /\ Stringify(b) /\ Free

Spec == Init /\ [][Next]_vars

\* the same object when every add method is handed its one value: what the
\* object accepts and refuses does not read the values
NextValue1 ==
    \/ \E b \in DOMAIN selectors, v \in Value1("element") : Element(b, v) /\ Free
    \/ \E b \in DOMAIN selectors, v \in Value1("id") : Id(b, v) /\ Free
    \/ \E b \in DOMAIN selectors, v \in Value1("class") :
          Room(b) /\ Class(b, v) /\ Free
    \/ \E b \in DOMAIN selectors, v \in Value1("attr") :
          Room(b) /\ Attr(b, v) /\ Free
    \/ \E b \in DOMAIN selectors, v \in Value1("pseudoClass") :
          Room(b) /\ PseudoClass(b, v) /\ Free
    \/ \E b \in DOMAIN selectors, v \in Value1("pseudoElement") :
          PseudoElement(b, v) /\ Free
    \/ \E b \in DOMAIN selectors : Short(b) /\ Stringify(b) /\ Free

SpecValue1 == Init /\ [][NextValue1]_vars

----------------------------------------------------------------------------
(* The facade and the objects it creates *)

InitFacade ==
    /\ selectors = <<>>
    /\ last = NoCall
    /\ calls = 0
    /\ rectangle = <<>>

Counted == calls < MaxCalls /\ calls' = calls + 1 /\ UNCHANGED rectangle

NextFacade ==
    \/ \E v \in Value1("element")       : Counted /\ BuilderElement(v)
    \/ \E v \in Value1("id")            : Counted /\ BuilderId(v)
    \/ \E v \in Value1("class")         : Counted /\ BuilderClass(v)
    \/ \E v \in Value1("attr")          : Counted /\ BuilderAttr(v)
    \/ \E v \in Value1("pseudoClass")   : Counted /\ BuilderPseudoClass(v)
    \/ \E v \in Value1("pseudoElement") : Counted /\ BuilderPseudoElement(v)
    \/ \E s1, s2 \in DOMAIN selectors, c \in Combinators :
          Counted /\ BuilderCombine(s1, c, s2)
    \/ \E b \in DOMAIN selectors, v \in Value1("element") :
          Counted /\ Element(b, v)
    \/ \E b \in DOMAIN selectors, v \in Value1("id") :
          Counted /\ Id(b, v)
    \/ \E b \in DOMAIN selectors, v \in Value1("class") :
          Counted /\ Class(b, v)
    \/ \E b \in DOMAIN selectors, v \in Value1("attr") :
          Counted /\ Attr(b, v)
    \/ \E b \in DOMAIN selectors, v \in Value1("pseudoClass") :
          Counted /\ PseudoClass(b, v)
    \/ \E b \in DOMAIN selectors, v \in Value1("pseudoElement") :
          Counted /\ PseudoElement(b, v)
    \/ \E b \in DOMAIN selectors : Counted /\ Stringify(b)
    \/ \E b, s1, s2 \in DOMAIN selectors, c \in Combinators :
          Counted /\ Combine(b, s1, c, s2)

SpecFacade == InitFacade /\ [][NextFacade]_vars

----------------------------------------------------------------------------
(* Rectangle *)

\* the object `new Rectangle(width, height)` constructs; its getArea is the
\* operator getArea of the object
Rectangle(width, height) == [width |-> width, height |-> height]

\* the perimeter in place of the area
getArea_perimeter(this) == 2 * (this.width + this.height)

\* this.getArea(): the arrow function reads this.width and this.height when
\* it is called
getArea(this) == this.width * this.height

Sides == 0..MaxSide

\* r.width = width, by the holder of the object
SetWidth(width) ==
    /\ rectangle' = <<[rectangle[1] EXCEPT !.width = width]>>
    /\ last' = [NoCall EXCEPT !.op = "width", !.width = width]
    /\ UNCHANGED <<selectors, calls>>

\* r.height = height
SetHeight(height) ==
    /\ rectangle' = <<[rectangle[1] EXCEPT !.height = height]>>
    /\ last' = [NoCall EXCEPT !.op = "height", !.height = height]
    /\ UNCHANGED <<selectors, calls>>

\* r.getArea()
GetArea ==
    /\ last' = [NoCall EXCEPT !.op = "getArea", !.area = getArea(rectangle[1])]
    /\ UNCHANGED <<selectors, calls, rectangle>>

\* after new Rectangle(width, height)
InitRectangle ==
    \E width, height \in Sides :
        /\ rectangle = <<Rectangle(width, height)>>
        /\ last = [NoCall EXCEPT !.op = "Rectangle", !.width = width,
                                 !.height = height]
        /\ selectors = <<>>
        /\ calls = 0

NextRectangle ==
    \/ \E width \in Sides : SetWidth(width)
    \/ \E height \in Sides : SetHeight(height)
    \/ GetArea

SpecRectangle == InitRectangle /\ [][NextRectangle]_vars

----------------------------------------------------------------------------
(* What the specification says of the selector string *)

Index(key) == CHOOSE i \in 1..Len(Order) : Order[i] = key

\* number of fragments of the category that object s holds
Held(s, key) == Len(s.params[ParamOf(key)])

\* some category after `key` in canonical order holds a fragment
LaterHeld(s, key) ==
    \E j \in (Index(key) + 1)..Len(Order) : Held(s, Order[j]) > 0

\* one fragment in the wrapping of its category
Wrapped(key, fragment) ==
    CASE key = "element"       -> fragment
      [] key = "id"            -> "#" \o fragment
      [] key = "class"         -> "." \o fragment
      [] key = "attr"          -> "[" \o fragment \o "]"
      [] key = "pseudoClass"   -> ":" \o fragment
      [] key = "pseudoElement" -> "::" \o fragment

RECURSIVE WrappedAll(_, _)
WrappedAll(key, fragments) ==
    IF fragments = <<>> THEN ""
    ELSE Wrapped(key, Head(fragments)) \o WrappedAll(key, Tail(fragments))

\* the categories from number i on, each fragment wrapped, in canonical order
RECURSIVE ConcatFrom(_, _)
ConcatFrom(params, i) ==
    IF i > Len(Order) THEN ""
    ELSE WrappedAll(Order[i], params[ParamOf(Order[i])]) \o ConcatFrom(params, i + 1)

Concat(params) == ConcatFrom(params, 1)

\* t occurs in s
Contains(s, t) ==
    \E i \in 0..(Len(s) - Len(t)) : SubSeq(s, i + 1, i + Len(t)) = t

IsCombine(call) == call.op \in {"combine", "builder.combine"}

----------------------------------------------------------------------------
(* Claims *)

\* C1: two calls of stringify in a row on one object return the same string.
C1_StringifyTwice ==
    [][(last.op = "stringify" /\ last'.op = "stringify" /\ last'.self = last.self)
         => last'.ret = last.ret]_vars

\* C2: the object cssSelectorBuilder.combine(A, c, B) returns renders as the
\* string A renders as, a space, c, a space, and the string B renders as
\* (the renderings of A and B being those of the state the call is made in).
C2_CombineRenders ==
    [][last'.op = "builder.combine"
         => stringify(selectors'[last'.self]).ret
              = stringify(selectors[last'.selector1]).ret
                  \o " " \o last'.key \o " "
                  \o stringify(selectors[last'.selector2]).ret]_vars

\* an object as a strictly increasing sequence of adds leaves a new object:
\* at most one fragment in a category, the categories that hold one marked,
\* nothing rendered
Increasing(s) ==
    /\ s.selectorString = ""
    /\ \A k \in OrderKeys : /\ Held(s, k) <= 1
                            /\ s.correctOrder[k] = (Held(s, k) = 1)

\* C3: on a new object, adds of categories in strictly increasing canonical
\* order all succeed, and stringify then returns the fragments present, each
\* in the wrapping of its category, in canonical order.
C3_IncreasingSubsets ==
    [][\A b \in DOMAIN selectors :
         (Increasing(selectors[b]) /\ last'.self = b) =>
           /\ (last'.op = "add" /\ ~LaterHeld(selectors[b], last'.key)
                                /\ Held(selectors[b], last'.key) = 0)
                => /\ last'.error = "none"
                   /\ Increasing(selectors'[b])
                   /\ selectors'[b].params[ParamOf(last'.key)] = <<last'.value>>
           /\ last'.op = "stringify" => last'.ret = Concat(selectors[b].params)]_vars

\* all six categories added in order, then rendered
C3_Witness ==
    /\ last.op = "stringify"
    /\ \A k \in OrderKeys : Held(selectors[last.self], k) = 1
    /\ last.ret = selectors[last.self].selectorString
    /\ last.ret = "e#i.x[q]:h::a"

\* C4: adding an element (an id, a pseudo-element) to an object that holds
\* one throws the duplicate error, whatever else the object holds.
C4_Duplicate ==
    [][\A b \in DOMAIN selectors :
         (/\ last'.op = "add" /\ last'.self = b
          /\ last'.key \in {"element", "id", "pseudoElement"}
          /\ Held(selectors[b], last'.key) > 0)
           => last'.error = "duplicate"]_vars

\* a second element refused as a duplicate on an object that holds later
\* categories
C4_Witness ==
    /\ last.op = "add" /\ last.key = "element" /\ last.error = "duplicate"
    /\ LaterHeld(selectors[last.self], "element")

\* C5: an add of a category that is class, attr or pseudoClass, or that the
\* object does not hold, throws the order error exactly when a later category
\* holds a fragment; otherwise it succeeds and appends the fragment.
C5_OrderError ==
    [][\A b \in DOMAIN selectors :
         (/\ last'.op = "add" /\ last'.self = b
          /\ \/ last'.key \in {"class", "attr", "pseudoClass"}
             \/ Held(selectors[b], last'.key) = 0)
           => /\ (last'.error = "order") <=> LaterHeld(selectors[b], last'.key)
              /\ ~LaterHeld(selectors[b], last'.key)
                   => /\ last'.error = "none"
                      /\ selectors'[b].params =
                           [selectors[b].params EXCEPT ![ParamOf(last'.key)] =
                                Append(@, last'.value)]]_vars

\* the order error for a category whose only later touched neighbour holds
\* nothing (it was marked by an add that failed)
C5_Witness ==
    /\ last.op = "add" /\ last.key = "element" /\ last.error = "order"
    /\ selectors[last.self].correctOrder["id"]
    /\ Held(selectors[last.self], "id") = 0

\* C6: element, id and pseudoElement hold at most one fragment each, in every
\* state that calls of the add methods, combine and stringify reach.
C6_AtMostOne ==
    \A b \in DOMAIN selectors :
        \A k \in {"element", "id", "pseudoElement"} : Held(selectors[b], k) <= 1

\* a second add refused on an object that has also been combined into
C6_Witness ==
    /\ last.op = "add" /\ last.error = "duplicate"
    /\ Held(selectors[last.self], last.key) = 1
    /\ Contains(selectors[last.self].selectorString, " ")

\* C7: once combine has stored the combined string in an object, stringify
\* returns that string as it is, whatever fragments the object holds.
C7_CombinedVerbatim ==
    IsCombine(last) =>
        stringify(selectors[last.self]).ret = selectors[last.self].selectorString

\* C8: combine leaves its two operands as they were (the receiver, when it is
\* itself an operand, is the object combine is to change, and is left out).
C8_OperandsUnchanged ==
    [][IsCombine(last') =>
         \A i \in {last'.selector1, last'.selector2} \ {last'.self} :
             selectors'[i] = selectors[i]]_vars

\* C9: class, attr and pseudoClass are accepted any number of times while no
\* later category holds a fragment, each fragment going to the end of its
\* category; stringify lists the fragments of each of the three categories in
\* that order, each in its wrapping, and returns exactly the canonical
\* concatenation when nothing was stored before.
C9_Multiple ==
    [][\A b \in DOMAIN selectors : last'.self = b =>
         /\ (/\ last'.op = "add"
             /\ last'.key \in {"class", "attr", "pseudoClass"}
             /\ ~LaterHeld(selectors[b], last'.key))
              => /\ last'.error = "none"
                 /\ selectors'[b].params[ParamOf(last'.key)]
                      = Append(selectors[b].params[ParamOf(last'.key)], last'.value)
         /\ last'.op = "stringify"
              => /\ \A k \in {"class", "attr", "pseudoClass"} :
                       Contains(last'.ret,
                                WrappedAll(k, selectors[b].params[ParamOf(k)]))
                 /\ selectors[b].selectorString = ""
                      => last'.ret = Concat(selectors[b].params)]_vars

\* two classes and a pseudo-class with different values, rendered
C9_Witness ==
    /\ last.op = "stringify"
    /\ selectors[last.self].params.className = <<"y", "x">>
    /\ selectors[last.self].params.pseudoClass = <<"k">>
    /\ last.ret = ".y.x:k"

\* C10 as stated: on an object that holds a pseudo-element, every add of
\* another category throws the order error.
C10_AfterPseudoElement ==
    [][\A b \in DOMAIN selectors :
         (/\ last'.op = "add" /\ last'.self = b
          /\ last'.key # "pseudoElement"
          /\ Held(selectors[b], "pseudoElement") > 0)
           => last'.error = "order"]_vars

\* C10 as amended: on an object that holds a pseudo-element, every add of
\* another category throws: the duplicate error for an element or an id the
\* object already holds, the order error otherwise.
C10_AfterPseudoElementThrows ==
    [][\A b \in DOMAIN selectors :
         (/\ last'.op = "add" /\ last'.self = b
          /\ last'.key # "pseudoElement"
          /\ Held(selectors[b], "pseudoElement") > 0)
           => last'.error =
                IF last'.key \in {"element", "id"} /\ Held(selectors[b], last'.key) > 0
                THEN "duplicate" ELSE "order"]_vars

\* a class refused on an object that holds only a pseudo-element
C10_Witness ==
    /\ last.op = "add" /\ last.key = "class" /\ last.error = "order"
    /\ Held(selectors[last.self], "pseudoElement") = 1
    /\ \A k \in OrderKeys \ {"pseudoElement"} : Held(selectors[last.self], k) = 0

\* C11: every facade entry point creates an object of its own (with the one
\* fragment of an add entry point, with none for combine), and neither a
\* facade call nor an add on one object changes the fragments or the touched
\* record of any other object.
C11_SeparateObjects ==
    [][/\ last'.op \in {"builder.add", "builder.combine"}
            => /\ Len(selectors') = Len(selectors) + 1
               /\ last'.self = Len(selectors')
               /\ last'.error = "none"
               /\ \A k \in OrderKeys :
                     LET one == last'.op = "builder.add" /\ k = last'.key
                     IN  /\ selectors'[last'.self].params[ParamOf(k)]
                              = IF one THEN <<last'.value>> ELSE <<>>
                         /\ selectors'[last'.self].correctOrder[k] = one
               /\ \A i \in DOMAIN selectors :
                     /\ selectors'[i].params = selectors[i].params
                     /\ selectors'[i].correctOrder = selectors[i].correctOrder
       /\ last'.op = "add"
            => /\ DOMAIN selectors' = DOMAIN selectors
               /\ \A i \in DOMAIN selectors \ {last'.self} :
                     selectors'[i] = selectors[i]]_vars

\* an add refused on the first of two objects while the second, which holds
\* a later category, is untouched
C11_Witness ==
    /\ Len(selectors) = 2
    /\ last.op = "add" /\ last.self = 1 /\ last.key = "element"
    /\ last.error = "duplicate"
    /\ Held(selectors[2], "pseudoElement") = 1
    /\ \A k \in OrderKeys : selectors[2].correctOrder[k] = (k = "pseudoElement")

\* C12: getArea returns the product of the width and the height the object
\* has when it is called: of the constructor's arguments right after the
\* construction, and of the new value and the other field right after a
\* field is assigned.  The call changes neither field.
C12_Area ==
    [][last'.op = "getArea" =>
         /\ rectangle' = rectangle
         /\ last'.area = rectangle[1].width * rectangle[1].height
         /\ last.op = "Rectangle" => last'.area = last.width * last.height
         /\ last.op = "width" => last'.area = last.width * rectangle[1].height
         /\ last.op = "height" => last'.area = rectangle[1].width * last.height]_vars

\* the area asked for after both fields were given values other than the
\* constructor's
C12_Witness ==
    /\ last.op = "getArea" /\ last.area = 6
    /\ rectangle[1].width = 2 /\ rectangle[1].height = 3

\* the receiver of the call as it was before the call (a new object for a
\* call of the facade)
Before(call) ==
    IF call.self \in DOMAIN selectors THEN selectors[call.self] ELSE NewSelector

\* C13: combine throws neither error, whatever the receiver holds, and
\* leaves the receiver's fragments and touched record as they were.
C13_CombineKeepsReceiver ==
    [][IsCombine(last') =>
         /\ last'.error = "none"
         /\ selectors'[last'.self].params = Before(last').params
         /\ selectors'[last'.self].correctOrder = Before(last').correctOrder]_vars

\* combine called on an object that holds a pseudo-element, with another
\* object as the operands
C13_Witness ==
    /\ last.op = "combine" /\ last.self \notin {last.selector1, last.selector2}
    /\ Held(selectors[last.self], "pseudoElement") = 1
    /\ selectors[last.self].correctOrder["pseudoElement"]
    /\ Contains(selectors[last.self].selectorString, " ~ ")

\* C14: on an object that was never combined, stringify returns exactly the
\* canonical concatenation of the fragments the object holds, wherever the
\* call stands among adds, failed adds and other stringify calls.
C14_RenderCanonical ==
    last.op = "stringify" => last.ret = Concat(selectors[last.self].params)

\* what an add of the category is to do on the object, read from the
\* fragments the object holds
ExpectedError(s, key) ==
    IF key \in {"element", "id", "pseudoElement"} /\ Held(s, key) > 0 THEN "duplicate"
    ELSE IF LaterHeld(s, key) THEN "order"
    ELSE "none"

\* what the caller of an add sees of its result: the error, and the
\* fragments and the stored string of the object
Seen(r) ==
    [error |-> r.error, params |-> r.self.params,
     selectorString |-> r.self.selectorString]

\* in this state every add is answered as the fragments held decide
Decided ==
    \A b \in DOMAIN selectors : \A k \in OrderKeys : \A v \in Values(k) :
        Add(selectors[b], k, v).error = ExpectedError(selectors[b], k)

\* C15: an add that throws leaves the fragments (and the stored string) as
\* they were, and the object then answers the next add or stringify as the
\* object before the call would have; and in every state the answer to an
\* add is decided by the fragments held alone, so that the two keep agreeing
\* in all later calls.
C15_FailedAdd ==
    /\ []Decided
    /\ [][\A b \in DOMAIN selectors :
            (last'.op = "add" /\ last'.self = b /\ last'.error # "none")
              => /\ selectors'[b].params = selectors[b].params
                 /\ selectors'[b].selectorString = selectors[b].selectorString
                 /\ stringify(selectors'[b]).ret = stringify(selectors[b]).ret
                 /\ \A k \in OrderKeys : \A v \in Value1(k) :
                       Seen(Add(selectors'[b], k, v)) = Seen(Add(selectors[b], k, v))]_vars

\* an add refused with the order error on an object that had been rendered,
\* which marked a category the object holds nothing of
C15_Witness ==
    /\ last.op = "add" /\ last.key = "attr" /\ last.error = "order"
    /\ Held(selectors[last.self], "attr") = 0
    /\ selectors[last.self].correctOrder["attr"]
    /\ selectors[last.self].selectorString # ""

\* C16: stringify leaves the fragments and the touched record of the object
\* as they were, and every add is then accepted or refused as it would have
\* been before the call.
C16_StringifyKeeps ==
    [][\A b \in DOMAIN selectors :
         (last'.op = "stringify" /\ last'.self = b)
           => /\ selectors'[b].params = selectors[b].params
              /\ selectors'[b].correctOrder = selectors[b].correctOrder
              /\ \A k \in OrderKeys : \A v \in Value1(k) :
                    Add(selectors'[b], k, v).error = Add(selectors[b], k, v).error]_vars

\* stringify called on an object that holds a class and has a category
\* marked by a refused add
C16_Witness ==
    /\ last.op = "stringify" /\ last.ret = ".x"
    /\ Held(selectors[last.self], "class") = 1
    /\ selectors[last.self].correctOrder["id"]
    /\ Held(selectors[last.self], "id") = 0

\* C17 as stated: in every reachable state a category is marked in
\* correctOrder if and only if the object holds a fragment of it.
C17_TouchedIffHeld ==
    \A b \in DOMAIN selectors : \A k \in OrderKeys :
        selectors[b].correctOrder[k] <=> Held(selectors[b], k) > 0

\* C17: in every reachable state a category that holds a fragment is marked
\* in correctOrder, and a marked category that holds no fragment comes before
\* a category that holds one: it was marked by an add refused with the order
\* error.
C17_TouchedHeldOrRefused ==
    \A b \in DOMAIN selectors : \A k \in OrderKeys :
        /\ Held(selectors[b], k) > 0 => selectors[b].correctOrder[k]
        /\ (selectors[b].correctOrder[k] /\ Held(selectors[b], k) = 0)
              => LaterHeld(selectors[b], k)

\* class refused after pseudoElement: className is marked and holds nothing
C17_Witness ==
    /\ last.op = "add" /\ last.key = "class" /\ last.error = "order"
    /\ selectors[last.self].correctOrder["class"]
    /\ Held(selectors[last.self], "class") = 0
    /\ Held(selectors[last.self], "pseudoElement") = 1

====
